---- MODULE Spec2Model ----
(***************************************************************************)
(* A model of the logo concept generator: the App component's daily usage  *)
(* quota (localStorage slot 'logoConceptUsage', the usageCount state, the  *)
(* Generate handler with its reservation and rollback), the two error      *)
(* classifiers of the generation services, and the serverless handler.     *)
(***************************************************************************)
EXTENDS Integers, FiniteSets, Sequences, TLC

\* ------------------------------------------------------------------ bounds
MaxDay == 2        \* calendar days the clock runs through (today in 1..MaxDay)
MaxClicks == 7     \* invocations of handleGenerateConcept in one behaviour

\* --------------------------------------------------------------- constants
DAILY_LIMIT == 5

VARIABLES
    \* the browser
    today,            \* new Date().toISOString().split('T')[0], as a day number
    storage,          \* localStorage['logoConceptUsage']
    \* the App component's state
    apiKey,           \* TRUE iff the apiKey state is a non-blank string
    isKeySubmitted,
    usageCount,
    isLoading,
    error,            \* "none" (null) or the kind of message set
    generatedConcept, \* TRUE iff generatedConcept is non-null
    effectDone,       \* the mount effect (load usage) has run
    pc,               \* handleGenerateConcept: "idle" or "awaiting" the call
    closureCount,     \* usageCount as captured by the running handler
    \* history of the run
    lastOp,           \* the last step taken
    lastResult,       \* what the last checkAndRecordUsage call returned
    attempts,         \* checkAndRecordUsage calls so far
    preSlot,          \* the slot as the last load or checkAndRecordUsage found it
    preCount,         \* currentCount as the last granted reservation read it
    resDay,           \* the day of the last granted reservation
    keptToday,        \* reservations of today that were granted and kept
    freshRun,         \* started with no record; no failure or midnight since
    \* the error classifiers
    rawMessage, conceptError, imageError,
    \* the serverless handler
    httpMethod, envKey, body, provider, statusCode, providerCalled

appVars == <<today, storage, apiKey, isKeySubmitted, usageCount, isLoading, error,
             generatedConcept, effectDone, pc, closureCount>>
histVars == <<lastOp, lastResult, attempts, preSlot, preCount, resDay, keptToday,
              freshRun>>
classifyVars == <<rawMessage, conceptError, imageError>>
handlerVars == <<httpMethod, envKey, body, provider, statusCode, providerCalled>>
vars == <<appVars, histVars, classifyVars, handlerVars>>

\* ------------------------------------------------- the localStorage slot
\* getItem returns null when the key is absent.
Absent == [kind |-> "absent", date |-> 0, count |-> 0]
\* A string JSON.parse (or the destructuring of its result) throws on.
Malformed == [kind |-> "malformed", date |-> 0, count |-> 0]

\* JSON.stringify({ date, count })
Stringify(d, c) == [kind |-> "json", date |-> d, count |-> c]

\* const { date, count } = JSON.parse(storedUsage): ok is FALSE when it throws.
Parse(s) ==
    IF s.kind = "json" THEN [ok |-> TRUE, date |-> s.date, count |-> s.count]
    ELSE [ok |-> FALSE, date |-> 0, count |-> 0]

\* How a slot reads on day t.
KindOn(s, t) ==
    IF s.kind = "json" THEN (IF s.date = t THEN "today" ELSE "stale") ELSE s.kind


\* ------------------------------------------------------ checkAndRecordUsage
\* Mutant: the date comparison is dropped, any parseable record counts for today.
CurrentCountAnyDate(s, t) ==
    IF s.kind = "absent" THEN 0
    ELSE IF ~Parse(s).ok THEN 0
    ELSE Parse(s).count

\* currentCount after the try/catch: the stored count when the record parses and
\* is dated today, 0 for an absent, unparseable or differently dated record.
CurrentCount(s, t) ==
    IF s.kind = "absent" THEN 0
    ELSE IF ~Parse(s).ok THEN 0
    ELSE IF Parse(s).date = t THEN Parse(s).count
    ELSE 0

\* Mutant: the limit test is off by one (>).
LimitReachedStrict(c) == c > DAILY_LIMIT

\* if (currentCount >= DAILY_LIMIT)
LimitReached(c) == c >= DAILY_LIMIT

\* The record checkAndRecordUsage writes when it grants: { date: today, count: newCount }.
ReservedRecord(s, t) == Stringify(t, CurrentCount(s, t) + 1)

\* ------------------------------------------------------------- the render
\* Math.max(0, DAILY_LIMIT - usageCount)
Max(a, b) == IF a >= b THEN a ELSE b
Remaining == Max(0, DAILY_LIMIT - usageCount)

\* Mutant: the disabled condition forgets isLoading.
ButtonDisabledIgnoresLoading == usageCount >= DAILY_LIMIT

\* The Generate button is rendered once the key is submitted, and is disabled
\* while isLoading || usageCount >= DAILY_LIMIT.
ButtonDisabled == isLoading \/ usageCount >= DAILY_LIMIT
ButtonEnabled == effectDone /\ isKeySubmitted /\ ~ButtonDisabled

\* ------------------------------------------------------------ the mount effect
\* Mutant: the catch does not remove the unparseable item.
LoadedStorageKeepsBad(s, t) ==
    IF s.kind = "absent" THEN s
    ELSE IF ~Parse(s).ok THEN s
    ELSE IF Parse(s).date = t THEN s
    ELSE Absent

\* What the effect leaves in the slot: untouched when absent or dated today,
\* removed when unparseable (catch) or dated another day.
LoadedStorage(s, t) ==
    IF s.kind = "absent" THEN s
    ELSE IF ~Parse(s).ok THEN Absent
    ELSE IF Parse(s).date = t THEN s
    ELSE Absent

\* Mutant: the effect never restores the stored count.
LoadedCountNever(s, t, u) == u

\* The usageCount after the effect: setUsageCount(count) only for today's record.
LoadedCount(s, t, u) ==
    IF s.kind = "absent" THEN u
    ELSE IF ~Parse(s).ok THEN u
    ELSE IF Parse(s).date = t THEN Parse(s).count
    ELSE u

\* ------------------------------------------------------------- the rollback
\* catch: newCount = usageCount (the value the handler closed over at the click,
\* not the incremented one); both the state and the slot get newCount - 1.
RollbackCount(captured) == captured - 1

\* --------------------------------------------------------------- defaults
ClassifyIdle ==
    /\ rawMessage = {}
    /\ conceptError = [category |-> "pending", raw |-> {}]
    /\ imageError = [category |-> "pending", raw |-> {}]

HandlerIdle ==
    /\ httpMethod = "POST"
    /\ envKey = TRUE
    /\ body = "none"
    /\ provider = "image"
    /\ statusCode = 0
    /\ providerCalled = FALSE

\* useState initial values of App
Mounted ==
    /\ apiKey = FALSE
    /\ isKeySubmitted = FALSE
    /\ usageCount = 0
    /\ isLoading = FALSE
    /\ error = "none"
    /\ generatedConcept = FALSE
    /\ effectDone = FALSE
    /\ pc = "idle"
    /\ closureCount = 0

InitialSlots ==
    {Absent, Malformed} \cup {Stringify(d, c) : d \in 0..1, c \in 0..DAILY_LIMIT}

Init ==
    /\ today = 1
    /\ storage \in InitialSlots
    /\ Mounted
    /\ lastOp = "init"
    /\ lastResult = FALSE
    /\ attempts = 0
    /\ preSlot = storage
    /\ preCount = 0
    /\ resDay = 0
    /\ keptToday = CurrentCount(storage, today)
    /\ freshRun = (storage = Absent)
    /\ ClassifyIdle
    /\ HandlerIdle

\* ----------------------------------------------------------------- actions
\* useEffect(() => {...}, []): load usage count on initial render
LoadUsage ==
    /\ ~effectDone
    /\ effectDone' = TRUE
    /\ usageCount' = LoadedCount(storage, today, usageCount)
    /\ storage' = LoadedStorage(storage, today)
    /\ lastOp' = "load"
    /\ preSlot' = storage
    /\ UNCHANGED <<today, apiKey, isKeySubmitted, isLoading, error, generatedConcept,
                   pc, closureCount>>
    /\ UNCHANGED <<lastResult, attempts, preCount, resDay, keptToday, freshRun>>
    /\ UNCHANGED <<classifyVars, handlerVars>>

\* onChange of the key input (rendered only before the key is submitted)
EnterApiKey ==
    /\ ~isKeySubmitted
    /\ \E k \in BOOLEAN :
        /\ k # apiKey
        /\ apiKey' = k
    /\ lastOp' = "key"
    /\ UNCHANGED <<today, storage, isKeySubmitted, usageCount, isLoading, error,
                   generatedConcept, effectDone, pc, closureCount>>
    /\ UNCHANGED <<lastResult, attempts, preSlot, preCount, resDay, keptToday, freshRun>>
    /\ UNCHANGED <<classifyVars, handlerVars>>

\* onClick of Start Generating: if (apiKey.trim()) setIsKeySubmitted(true)
SubmitKey ==
    /\ ~isKeySubmitted
    /\ apiKey
    /\ isKeySubmitted' = TRUE
    /\ lastOp' = "key"
    /\ UNCHANGED <<today, storage, apiKey, usageCount, isLoading, error,
                   generatedConcept, effectDone, pc, closureCount>>
    /\ UNCHANGED <<lastResult, attempts, preSlot, preCount, resDay, keptToday, freshRun>>
    /\ UNCHANGED <<classifyVars, handlerVars>>

\* handleGenerateConcept up to its await: the key check, checkAndRecordUsage
\* (reject, or increment and write), then the loading state.
HandleGenerateConcept ==
    /\ pc = "idle"
    /\ attempts < MaxClicks
    /\ IF ~apiKey THEN
            /\ error' = "missingKey"
            /\ lastOp' = "nokey"
            /\ UNCHANGED <<storage, usageCount, isLoading, generatedConcept, pc,
                           closureCount>>
            /\ UNCHANGED <<lastResult, attempts, preSlot, preCount, resDay>>
       ELSE IF LimitReached(CurrentCount(storage, today)) THEN
            /\ error' = "limit"
            /\ lastOp' = "reject"
            /\ lastResult' = FALSE
            /\ attempts' = attempts + 1
            /\ preSlot' = storage
            /\ UNCHANGED <<storage, usageCount, isLoading, generatedConcept, pc,
                           closureCount, preCount, resDay>>
       ELSE
            /\ usageCount' = CurrentCount(storage, today) + 1
            /\ storage' = ReservedRecord(storage, today)
            /\ isLoading' = TRUE
            /\ error' = "none"
            /\ generatedConcept' = FALSE
            /\ pc' = "awaiting"
            /\ closureCount' = usageCount
            /\ lastOp' = "reserve"
            /\ lastResult' = TRUE
            /\ attempts' = attempts + 1
            /\ preSlot' = storage
            /\ preCount' = CurrentCount(storage, today)
            /\ resDay' = today
    /\ UNCHANGED <<today, apiKey, isKeySubmitted, effectDone, keptToday, freshRun>>
    /\ UNCHANGED <<classifyVars, handlerVars>>

\* A click on the rendered, enabled Generate button.
ClickGenerate ==
    /\ ButtonEnabled
    /\ HandleGenerateConcept

\* Mutant: the revert runs in the finally, so also when the call succeeded.
GenerationSucceedsReverts ==
    /\ pc = "awaiting"
    /\ pc' = "idle"
    /\ generatedConcept' = TRUE
    /\ usageCount' = RollbackCount(closureCount)
    /\ storage' = Stringify(today, RollbackCount(closureCount))
    /\ isLoading' = FALSE
    /\ lastOp' = "success"
    /\ keptToday' = IF resDay = today THEN keptToday + 1 ELSE keptToday
    /\ UNCHANGED <<today, apiKey, isKeySubmitted, error, effectDone, closureCount>>
    /\ UNCHANGED <<lastResult, attempts, preSlot, preCount, resDay, freshRun>>
    /\ UNCHANGED <<classifyVars, handlerVars>>

\* await generateLogoConcept resolves: setGeneratedConcept, finally setIsLoading(false)
GenerationSucceeds ==
    /\ pc = "awaiting"
    /\ pc' = "idle"
    /\ generatedConcept' = TRUE
    /\ isLoading' = FALSE
    /\ lastOp' = "success"
    /\ keptToday' = IF resDay = today THEN keptToday + 1 ELSE keptToday
    /\ UNCHANGED <<today, storage, apiKey, isKeySubmitted, usageCount, error,
                   effectDone, closureCount>>
    /\ UNCHANGED <<lastResult, attempts, preSlot, preCount, resDay, freshRun>>
    /\ UNCHANGED <<classifyVars, handlerVars>>

\* Mutant: the revert reuses the date of the reservation.
GenerationFailsReservationDate ==
    /\ pc = "awaiting"
    /\ pc' = "idle"
    /\ error' = "failed"
    /\ usageCount' = RollbackCount(closureCount)
    /\ storage' = Stringify(resDay, RollbackCount(closureCount))
    /\ isLoading' = FALSE
    /\ lastOp' = "rollback"
    /\ freshRun' = FALSE
    /\ UNCHANGED <<today, apiKey, isKeySubmitted, generatedConcept, effectDone,
                   closureCount>>
    /\ UNCHANGED <<lastResult, attempts, preSlot, preCount, resDay, keptToday>>
    /\ UNCHANGED <<classifyVars, handlerVars>>

\* await generateLogoConcept rejects: setError, revert usage, finally setIsLoading(false)
GenerationFails ==
    /\ pc = "awaiting"
    /\ pc' = "idle"
    /\ error' = "failed"
    /\ usageCount' = RollbackCount(closureCount)
    /\ storage' = Stringify(today, RollbackCount(closureCount))
    /\ isLoading' = FALSE
    /\ lastOp' = "rollback"
    /\ freshRun' = FALSE
    /\ UNCHANGED <<today, apiKey, isKeySubmitted, generatedConcept, effectDone,
                   closureCount>>
    /\ UNCHANGED <<lastResult, attempts, preSlot, preCount, resDay, keptToday>>
    /\ UNCHANGED <<classifyVars, handlerVars>>

\* The page is reloaded: the component state is rebuilt from its useState
\* initial values and a pending handler is gone with the old page.
Reload ==
    /\ effectDone
    /\ apiKey' = FALSE
    /\ isKeySubmitted' = FALSE
    /\ usageCount' = 0
    /\ isLoading' = FALSE
    /\ error' = "none"
    /\ generatedConcept' = FALSE
    /\ effectDone' = FALSE
    /\ pc' = "idle"
    /\ closureCount' = 0
    /\ lastOp' = "reload"
    /\ UNCHANGED <<today, storage>>
    /\ UNCHANGED <<lastResult, attempts, preSlot, preCount, resDay, keptToday, freshRun>>
    /\ UNCHANGED <<classifyVars, handlerVars>>

\* Midnight (UTC) passes.
DayAdvance ==
    /\ today < MaxDay
    /\ today' = today + 1
    /\ lastOp' = "day"
    /\ keptToday' = 0
    /\ freshRun' = FALSE
    /\ UNCHANGED <<storage, apiKey, isKeySubmitted, usageCount, isLoading, error,
                   generatedConcept, effectDone, pc, closureCount>>
    /\ UNCHANGED <<lastResult, attempts, preSlot, preCount, resDay>>
    /\ UNCHANGED <<classifyVars, handlerVars>>

Next ==
    \/ LoadUsage
    \/ EnterApiKey
    \/ SubmitKey
    \/ ClickGenerate
    \/ GenerationSucceeds
    \/ GenerationFails
    \/ Reload
    \/ DayAdvance

Spec == Init /\ [][Next]_vars

\* The handler invoked as a function, whatever the rendered button's state.
InvokeGenerate ==
    /\ HandleGenerateConcept

NextDirect ==
    \/ LoadUsage
    \/ EnterApiKey
    \/ SubmitKey
    \/ InvokeGenerate
    \/ GenerationSucceeds
    \/ GenerationFails
    \/ Reload
    \/ DayAdvance

SpecDirect == Init /\ [][NextDirect]_vars


\* ------------------------------------------------------ error classification
\* A provider message, as the set of the phrases that occur in it, each in the
\* letter case it occurs in.
Tokens ==
    {"API key not valid", "API KEY NOT VALID", "billing", "Billing",
     "permission denied", "Permission Denied", "api not enabled", "API not enabled",
     "quota", "Quota", "other text"}
Messages == SUBSET Tokens

\* String.prototype.toLowerCase, phrase by phrase
ToLower(tok) ==
    CASE tok \in {"API key not valid", "API KEY NOT VALID"} -> "api key not valid"
      [] tok \in {"billing", "Billing"} -> "billing"
      [] tok \in {"permission denied", "Permission Denied"} -> "permission denied"
      [] tok \in {"api not enabled", "API not enabled"} -> "api not enabled"
      [] tok \in {"quota", "Quota"} -> "quota"
      [] OTHER -> tok
LowerCase(msg) == {ToLower(tok) : tok \in msg}

\* String.prototype.includes
Includes(msg, phrase) == phrase \in msg

Known(cat) == [category |-> cat, raw |-> {}]
\* `Failed to generate ...: ${errorMessage}`
Unknown(msg) == [category |-> "Unknown", raw |-> msg]

\* generateLogoConcept, catch: what it throws for the provider message msg
GenerateLogoConceptError(msg) ==
    IF Includes(msg, "API key not valid") THEN Known("InvalidCredential")
    ELSE IF Includes(LowerCase(msg), "quota") THEN Known("QuotaExceeded")
    ELSE Unknown(msg)

\* Mutant: the quota rule is tested before the billing rule.
GenerateLogoImageErrorQuotaFirst(msg) ==
    IF Includes(msg, "API key not valid") THEN Known("InvalidCredential")
    ELSE IF Includes(LowerCase(msg), "quota") THEN Known("QuotaExceeded")
    ELSE IF Includes(LowerCase(msg), "billing") THEN Known("BillingRequired")
    ELSE IF \/ Includes(LowerCase(msg), "permission denied")
            \/ Includes(LowerCase(msg), "api not enabled")
         THEN Known("PermissionDenied")
    ELSE Unknown(msg)

\* generateLogoImage, catch: what it throws for the provider message msg
GenerateLogoImageError(msg) ==
    IF Includes(msg, "API key not valid") THEN Known("InvalidCredential")
    ELSE IF Includes(LowerCase(msg), "billing") THEN Known("BillingRequired")
    ELSE IF \/ Includes(LowerCase(msg), "permission denied")
            \/ Includes(LowerCase(msg), "api not enabled")
         THEN Known("PermissionDenied")
    ELSE IF Includes(LowerCase(msg), "quota") THEN Known("QuotaExceeded")
    ELSE Unknown(msg)

\* The App and the handler at rest, for the specifications of the other parts.
AppIdle ==
    /\ today = 1
    /\ storage = Absent
    /\ Mounted
    /\ lastOp = "init"
    /\ lastResult = FALSE
    /\ attempts = 0
    /\ preSlot = Absent
    /\ preCount = 0
    /\ resDay = 0
    /\ keptToday = 0
    /\ freshRun = TRUE

InitClassify ==
    /\ AppIdle
    /\ HandlerIdle
    /\ rawMessage \in Messages
    /\ conceptError = [category |-> "pending", raw |-> {}]
    /\ imageError = [category |-> "pending", raw |-> {}]

\* The provider call of generateLogoConcept fails with rawMessage.
ConceptCallFails ==
    /\ conceptError.category = "pending"
    /\ conceptError' = GenerateLogoConceptError(rawMessage)
    /\ UNCHANGED <<rawMessage, imageError>>
    /\ UNCHANGED <<appVars, histVars, handlerVars>>

\* The provider call of generateLogoImage fails with rawMessage.
ImageCallFails ==
    /\ imageError.category = "pending"
    /\ imageError' = GenerateLogoImageError(rawMessage)
    /\ UNCHANGED <<rawMessage, conceptError>>
    /\ UNCHANGED <<appVars, histVars, handlerVars>>

NextClassify ==
    \/ ConceptCallFails
    \/ ImageCallFails

SpecClassify == InitClassify /\ [][NextClassify]_vars

\* ------------------------------------------------------ the serverless handler
Methods == {"GET", "POST", "PUT"}
\* event.body: null, "", text JSON.parse throws on, the JSON null, an object
\* without prompt, with an empty prompt, with a prompt
Bodies == {"none", "empty", "notJson", "jsonNull", "noPrompt", "emptyPrompt", "prompt"}
\* generateImages: image bytes, no generatedImages, an image without bytes, a throw
ProviderOutcomes == {"image", "noImages", "noBytes", "throws"}

\* const { prompt } = JSON.parse(event.body || '{}')
BodyOutcome(b) ==
    IF b \in {"none", "empty"} THEN "noPrompt"
    ELSE IF b \in {"notJson", "jsonNull"} THEN "throws"
    ELSE IF b \in {"noPrompt", "emptyPrompt"} THEN "noPrompt"
    ELSE "prompt"

\* Mutant: the credential is checked before the method.
ValidationStatusKeyFirst(m, k, b) ==
    IF ~k THEN 500
    ELSE IF m # "POST" THEN 405
    ELSE IF BodyOutcome(b) = "throws" THEN 500
    ELSE IF BodyOutcome(b) = "noPrompt" THEN 400
    ELSE 0

\* The status the handler returns before calling the provider, 0 when it goes on.
ValidationStatus(m, k, b) ==
    IF m # "POST" THEN 405
    ELSE IF ~k THEN 500
    ELSE IF BodyOutcome(b) = "throws" THEN 500
    ELSE IF BodyOutcome(b) = "noPrompt" THEN 400
    ELSE 0

\* The status after the provider call: 200 with image bytes, else the catch's 500.
ProviderStatus(p) == IF p = "image" THEN 200 ELSE 500

InitHandler ==
    /\ AppIdle
    /\ ClassifyIdle
    /\ httpMethod \in Methods
    /\ envKey \in BOOLEAN
    /\ body \in Bodies
    /\ provider \in ProviderOutcomes
    /\ statusCode = 0
    /\ providerCalled = FALSE

\* handler, up to a return or to the await of generateImages
HandleRequest ==
    /\ statusCode = 0
    /\ ~providerCalled
    /\ statusCode' = ValidationStatus(httpMethod, envKey, body)
    /\ providerCalled' = (ValidationStatus(httpMethod, envKey, body) = 0)
    /\ UNCHANGED <<httpMethod, envKey, body, provider>>
    /\ UNCHANGED <<appVars, histVars, classifyVars>>

\* handler, from the provider's answer to the return
ProviderAnswers ==
    /\ statusCode = 0
    /\ providerCalled
    /\ statusCode' = ProviderStatus(provider)
    /\ UNCHANGED <<httpMethod, envKey, body, provider, providerCalled>>
    /\ UNCHANGED <<appVars, histVars, classifyVars>>

NextHandler ==
    \/ HandleRequest
    \/ ProviderAnswers

SpecHandler == InitHandler /\ [][NextHandler]_vars

\* ============================================================== the claims

\* C1: within one calendar day the number of generation calls that complete
\* successfully (reservations granted and kept) never exceeds DAILY_LIMIT.
C1_DailyCapEnforced == keptToday <= DAILY_LIMIT

\* C2: after a granted reservation whose generation call fails (same day), the
\* stored count for today and the in-memory usageCount are both back at the
\* count the reservation started from.
C2_RollbackRestores ==
    (lastOp = "rollback" /\ resDay = today)
        => (storage = Stringify(today, preCount) /\ usageCount = preCount)

\* C3: the count of the stored usage record is always in 0..DAILY_LIMIT.
C3_StoredCountInRange ==
    storage.kind = "json" => storage.count \in 0..DAILY_LIMIT

\* C4: on a fresh tracker within one day with every generation succeeding, the
\* first DAILY_LIMIT reservation attempts return true (each raising the stored
\* count by one) and every later one returns false with the count left at
\* DAILY_LIMIT; a rejected attempt changes neither the slot nor usageCount and
\* issues no generation call.
C4_FirstFive ==
    (freshRun /\ attempts > 0) =>
        IF attempts <= DAILY_LIMIT
        THEN lastResult = TRUE /\ storage = Stringify(today, attempts)
        ELSE lastResult = FALSE /\ storage = Stringify(today, DAILY_LIMIT)
C4_RejectChangesNothing ==
    (apiKey /\ attempts' = attempts + 1 /\ CurrentCount(storage, today) >= DAILY_LIMIT)
        => (/\ lastResult' = FALSE
            /\ storage' = storage
            /\ usageCount' = usageCount
            /\ pc' = "idle"
            /\ isLoading' = isLoading)
C4_FiveThenRejected == []C4_FirstFive /\ [][C4_RejectChangesNothing]_vars
C4_Witness ==
    /\ freshRun
    /\ attempts = DAILY_LIMIT + 1
    /\ lastOp = "reject"
    /\ lastResult = FALSE
    /\ storage = Stringify(today, DAILY_LIMIT)

\* C5: a reservation attempt that finds a record dated another day returns true
\* and replaces it by { date: today, count: 1 }, whatever the stale count.
C5_StaleRecordCountsAsZero ==
    (lastOp \in {"reserve", "reject"} /\ KindOn(preSlot, today) = "stale")
        => (lastOp = "reserve" /\ lastResult = TRUE /\ storage = Stringify(today, 1))
C5_Witness ==
    /\ lastOp = "reserve"
    /\ preSlot = Stringify(today - 1, DAILY_LIMIT)
    /\ lastResult = TRUE
    /\ storage = Stringify(today, 1)

\* C6: unparseable stored data is treated as an absent record: the startup
\* effect leaves usageCount at 0 and clears the slot, and a reservation attempt
\* on it returns true and overwrites it with { date: today, count: 1 }.
C6_MalformedTreatedAsAbsent ==
    /\ (lastOp = "load" /\ preSlot = Malformed)
            => (usageCount = 0 /\ storage = Absent /\ effectDone)
    /\ (lastOp \in {"reserve", "reject"} /\ preSlot = Malformed)
            => (/\ lastOp = "reserve"
                /\ lastResult = TRUE
                /\ Parse(storage).ok
                /\ storage = Stringify(today, 1))
C6_Witness ==
    /\ lastOp = "reserve"
    /\ preSlot = Malformed
    /\ storage = Stringify(today, 1)
    /\ usageCount = 1

\* C7: the startup effect on a record dated today restores usageCount to the
\* stored count and leaves the record as it was.
C7_ReloadKeepsQuota ==
    (lastOp = "load" /\ KindOn(preSlot, today) = "today")
        => (usageCount = preSlot.count /\ storage = preSlot)
C7_Witness ==
    /\ lastOp = "load"
    /\ attempts > 0
    /\ resDay = today
    /\ KindOn(preSlot, today) = "today"
    /\ usageCount = preSlot.count
    /\ usageCount > 0
    /\ storage = preSlot

\* C8: in every quiescent state after startup the remaining-generations value
\* shown equals max(0, DAILY_LIMIT - currentCount()), currentCount() being the
\* stored count when the record is dated today and 0 otherwise.
C8_RemainingMatchesStored ==
    (effectDone /\ pc = "idle")
        => Remaining = Max(0, DAILY_LIMIT - CurrentCount(storage, today))


\* The rule table of the classifier: category, phrases, case folding, in order.
Rules ==
    << [cat |-> "InvalidCredential", phrases |-> {"API key not valid"}, fold |-> FALSE],
       [cat |-> "BillingRequired", phrases |-> {"billing"}, fold |-> TRUE],
       [cat |-> "PermissionDenied", phrases |-> {"permission denied", "api not enabled"},
        fold |-> TRUE],
       [cat |-> "QuotaExceeded", phrases |-> {"quota"}, fold |-> TRUE] >>
ConceptRules == << Rules[1], Rules[4] >>
Matches(rule, msg) ==
    (rule.phrases \cap (IF rule.fold THEN LowerCase(msg) ELSE msg)) # {}
FirstMatch(rules, msg) ==
    LET hits == {i \in 1..Len(rules) : Matches(rules[i], msg)}
    IN  IF hits = {} THEN [category |-> "Unknown", raw |-> msg]
        ELSE [category |-> rules[CHOOSE i \in hits : \A j \in hits : i <= j].cat,
              raw |-> {}]

\* C9 as stated: both generateLogoConcept and generateLogoImage classify every
\* provider message by the first matching rule of the table (InvalidCredential,
\* BillingRequired, PermissionDenied, QuotaExceeded, else Unknown with the
\* message preserved).
C9_BothFollowTable ==
    /\ conceptError.category # "pending" => conceptError = FirstMatch(Rules, rawMessage)
    /\ imageError.category # "pending" => imageError = FirstMatch(Rules, rawMessage)

\* C9 amended: generateLogoImage classifies by the first matching rule of the
\* table; generateLogoConcept applies only the InvalidCredential and
\* QuotaExceeded rules, in that order, and everything else is Unknown with the
\* message preserved.
C9_ImageTableConceptReduced ==
    /\ conceptError.category # "pending"
            => conceptError = FirstMatch(ConceptRules, rawMessage)
    /\ imageError.category # "pending" => imageError = FirstMatch(Rules, rawMessage)
C9_Witness ==
    /\ rawMessage = {"Billing", "other text"}
    /\ imageError = Known("BillingRequired")
    /\ conceptError = Unknown(rawMessage)

\* C10: the handler answers any non-POST request with 405, a POST without server
\* credential with 500, a POST whose body has no prompt (no body, empty body,
\* prompt missing or empty) with 400, none of them calling the provider; the
\* provider is called only when every check passed, and then the answer is 200
\* exactly when it returned image bytes and 500 otherwise; every answer is one
\* of 200, 400, 405, 500.
C10_HandlerValidatesInOrder ==
    /\ providerCalled => (httpMethod = "POST" /\ envKey /\ body = "prompt")
    /\ statusCode # 0 =>
        /\ statusCode \in {200, 400, 405, 500}
        /\ httpMethod # "POST" => (statusCode = 405 /\ ~providerCalled)
        /\ (httpMethod = "POST" /\ ~envKey) => (statusCode = 500 /\ ~providerCalled)
        /\ (httpMethod = "POST" /\ envKey
                /\ body \in {"none", "empty", "noPrompt", "emptyPrompt"})
            => (statusCode = 400 /\ ~providerCalled)
        /\ providerCalled => (statusCode = 200 <=> provider = "image")
        /\ providerCalled => (statusCode = 500 <=> provider # "image")
C10_Witness ==
    /\ statusCode = 405
    /\ httpMethod = "GET"
    /\ ~envKey
    /\ body = "none"
    /\ ~providerCalled


\* C11: within each Generate attempt the reservation, the gated call and the
\* rollback are ordered and paired: a call is pending only after a granted
\* reservation, and is issued only by the step in which checkAndRecordUsage
\* returned true; the slot is written only by a granted reservation, by the
\* startup effect, or by the rollback of a pending call that failed; a pending
\* call ends in exactly one outcome, kept (slot and count untouched) on success
\* or one rollback on failure.
C11_PendingHasReservation ==
    pc = "awaiting" => (lastResult = TRUE /\ attempts > 0 /\ resDay >= 1)
C11_CallOnlyAfterGrant ==
    (pc # "awaiting" /\ pc' = "awaiting")
        => (/\ attempts' = attempts + 1
            /\ lastResult' = TRUE
            /\ storage' = Stringify(today, CurrentCount(storage, today) + 1))
C11_WritesAreReserveLoadOrRollback ==
    (storage' # storage) =>
        \/ attempts' = attempts + 1 /\ lastResult' = TRUE /\ pc' = "awaiting"
        \/ ~effectDone /\ effectDone'
        \/ /\ pc = "awaiting"
           /\ pc' = "idle"
           /\ error' = "failed"
           /\ attempts' = attempts
C11_OneOutcome ==
    (pc = "awaiting" /\ pc' = "idle" /\ effectDone' = effectDone) =>
        \/ /\ generatedConcept'
           /\ error' = error
           /\ storage' = storage
           /\ usageCount' = usageCount
        \/ /\ error' = "failed"
           /\ generatedConcept' = generatedConcept
           /\ storage' = Stringify(today, usageCount')
C11_ReservePrecedesCallPrecedesRollback ==
    /\ []C11_PendingHasReservation
    /\ [][C11_CallOnlyAfterGrant]_vars
    /\ [][C11_WritesAreReserveLoadOrRollback]_vars
    /\ [][C11_OneOutcome]_vars
C11_Witness ==
    /\ lastOp = "rollback"
    /\ pc = "idle"
    /\ error = "failed"
    /\ lastResult = TRUE
    /\ attempts >= 2
    /\ keptToday >= 1


\* C12: the user is never locked out on a day whose effective count is below
\* DAILY_LIMIT: with the page started, the key submitted and no call pending,
\* the Generate control is enabled whenever currentCount() < DAILY_LIMIT, also
\* on the day after the count reached DAILY_LIMIT, without a reload.
C12_NoLockoutBelowLimit ==
    (/\ effectDone
     /\ isKeySubmitted
     /\ pc = "idle"
     /\ ~isLoading
     /\ CurrentCount(storage, today) < DAILY_LIMIT)
        => ~ButtonDisabled


C14_PendingDisablesGenerate ==
    pc = "awaiting" => (isLoading /\ ButtonDisabled /\ ~ButtonEnabled)
C14_ResolvedClearsLoading ==
    pc = "idle" => ~isLoading
C14_ResolveStep ==
    (pc = "awaiting" /\ pc' = "idle") => (isLoading /\ ~isLoading')
C14_NoSecondStart ==
    (attempts' # attempts) => (pc = "idle" /\ ~isLoading /\ ButtonEnabled)
C14_SingleFlight ==
    /\ [](C14_PendingDisablesGenerate /\ C14_ResolvedClearsLoading)
    /\ [][C14_ResolveStep]_vars
    /\ [][C14_NoSecondStart]_vars
C14_Witness ==
    /\ pc = "awaiting"
    /\ isLoading
    /\ effectDone
    /\ isKeySubmitted
    /\ usageCount < DAILY_LIMIT
    /\ attempts >= 2

====
